---- MODULE Spec2Model ----
(***************************************************************************)
(* The process-wide mongoose connection cache of                           *)
(* src/components/shared/Sidebar.tsx (lines 128-171): the record `cached`  *)
(* and the async function connectToDatabase.                               *)
(*                                                                         *)
(* JavaScript runs connectToDatabase synchronously up to its first await   *)
(* (line 167), so lines 154-167 up to the suspension are one atomic step   *)
(* (Call).  The continuation after the await runs later, as a job of its   *)
(* own, once the awaited promise is settled (Resume...).  mongoose.connect *)
(* returns a fresh pending promise which the driver settles later          *)
(* (Fulfil / Reject).                                                      *)
(***************************************************************************)
EXTENDS Naturals, Sequences, FiniteSets

VARIABLES
    url,        \* MONGODB_URL is set (line 132); fixed for the process
    cached,     \* the record `cached`: [conn, promise] (lines 141-149)
    promises,   \* the promises mongoose.connect returned, in creation order
    pc,         \* per invocation of connectToDatabase: where it is
    awaited,    \* per invocation: the promise operand of its await (167)
    result,     \* per invocation: the value it returned
    error,      \* per invocation: the error it threw
    observed    \* history: settlement state of the awaited promise at the
                \* moment the invocation suspended

vars == <<url, cached, promises, pc, awaited, result, error, observed>>

\* Number of invocations of connectToDatabase in a run.
MaxCalls == 3

Calls == 1..MaxCalls

\* The values mongoose.connect may resolve to, and reject with.
Handles == {"H1", "H2"}
Errors == {"E1", "E2"}

NULL == "null"
NoPromise == 0
NoError == "none"
MissingUrlError == "Missing MONGODB_URL"

\* A promise returned by mongoose.connect.
PendingPromise == [state |-> "pending", value |-> NULL, error |-> NoError]

\* The number of times mongoose.connect has been invoked.
connectCalls == Len(promises)

\* Line 154: `if (cached.conn)`.
ConnCached_Never(conn) == FALSE

ConnCached(conn) == conn # NULL

\* Line 158: `if (!MONGODB_URL)`.
UrlMissing_Never(u) == FALSE

UrlMissing(u) == ~u

\* Line 161: `cached.promise || mongoose.connect(...)`: connect is evaluated
\* only when cached.promise is falsy.
ConnectNeeded_Always(promise) == TRUE

ConnectNeeded_Retry(promise) ==
    \/ promise = NoPromise
    \/ promises[promise].state = "rejected"

ConnectNeeded(promise) == promise = NoPromise

\* Line 167: `cached.conn = <resolved value>`.
StoreConn_Skip(c, v) == c

StoreConn(c, v) == [c EXCEPT !.conn = v]

\* Line 167: what `await p` yields once p is settled: the value of a
\* fulfilled promise, or a throw of the reason of a rejected one.
AwaitOutcome_Swallow(p) ==
    IF promises[p].state = "fulfilled"
    THEN [kind |-> "value", value |-> promises[p].value, error |-> NoError]
    ELSE [kind |-> "value", value |-> NULL, error |-> NoError]

AwaitOutcome(p) ==
    IF promises[p].state = "fulfilled"
    THEN [kind |-> "value", value |-> promises[p].value, error |-> NoError]
    ELSE [kind |-> "throw", value |-> NULL, error |-> promises[p].error]

Settled(p) == promises[p].state # "pending"

\* Lines 141-149: the cache record is created with both fields null.
Init ==
    /\ url \in BOOLEAN
    /\ cached = [conn |-> NULL, promise |-> NoPromise]
    /\ promises = << >>
    /\ pc = [c \in Calls |-> "idle"]
    /\ awaited = [c \in Calls |-> NoPromise]
    /\ result = [c \in Calls |-> NULL]
    /\ error = [c \in Calls |-> NoError]
    /\ observed = [c \in Calls |-> "-"]

\* Lines 154-155: a connection is cached; return it.
CallCached(c) ==
    /\ pc[c] = "idle"
    /\ ConnCached(cached.conn)
    /\ pc' = [pc EXCEPT ![c] = "returned"]
    /\ result' = [result EXCEPT ![c] = cached.conn]
    /\ UNCHANGED <<url, cached, promises, awaited, error, observed>>

\* Lines 154-158: no connection cached and no MONGODB_URL; throw.
CallMissingUrl(c) ==
    /\ pc[c] = "idle"
    /\ ~ConnCached(cached.conn)
    /\ UrlMissing(url)
    /\ pc' = [pc EXCEPT ![c] = "threw"]
    /\ error' = [error EXCEPT ![c] = MissingUrlError]
    /\ UNCHANGED <<url, cached, promises, awaited, result, observed>>

\* Lines 154-167 up to the suspension: start the attempt unless one is
\* recorded, record it, and suspend on cached.promise.
CallAwait(c) ==
    /\ pc[c] = "idle"
    /\ ~ConnCached(cached.conn)
    /\ ~UrlMissing(url)
    /\ IF ConnectNeeded(cached.promise)
       THEN /\ promises' = Append(promises, PendingPromise)
            /\ cached' = [cached EXCEPT !.promise = Len(promises) + 1]
       ELSE UNCHANGED <<promises, cached>>
    /\ pc' = [pc EXCEPT ![c] = "awaiting"]
    /\ awaited' = [awaited EXCEPT ![c] = cached'.promise]
    /\ observed' = [observed EXCEPT ![c] = promises'[cached'.promise].state]
    /\ UNCHANGED <<url, result, error>>

\* mongoose.connect succeeds: its promise is fulfilled with a handle.
Fulfil(p, h) ==
    /\ promises[p].state = "pending"
    /\ promises' = [promises EXCEPT ![p] =
                       [state |-> "fulfilled", value |-> h, error |-> NoError]]
    /\ UNCHANGED <<url, cached, pc, awaited, result, error, observed>>

\* mongoose.connect fails: its promise is rejected with an error.
Reject(p, e) ==
    /\ promises[p].state = "pending"
    /\ promises' = [promises EXCEPT ![p] =
                       [state |-> "rejected", value |-> NULL, error |-> e]]
    /\ UNCHANGED <<url, cached, pc, awaited, result, error, observed>>

\* Lines 167-170 after the suspension, the awaited promise fulfilled:
\* store the connection and return cached.conn.
ResumeValue(c) ==
    /\ pc[c] = "awaiting"
    /\ Settled(awaited[c])
    /\ AwaitOutcome(awaited[c]).kind = "value"
    /\ cached' = StoreConn(cached, AwaitOutcome(awaited[c]).value)
    /\ pc' = [pc EXCEPT ![c] = "returned"]
    /\ result' = [result EXCEPT ![c] = cached'.conn]
    /\ UNCHANGED <<url, promises, awaited, error, observed>>

\* Line 167 after the suspension, the awaited promise rejected: the await
\* throws, the assignment does not happen, the invocation fails.
ResumeThrow(c) ==
    /\ pc[c] = "awaiting"
    /\ Settled(awaited[c])
    /\ AwaitOutcome(awaited[c]).kind = "throw"
    /\ pc' = [pc EXCEPT ![c] = "threw"]
    /\ error' = [error EXCEPT ![c] = AwaitOutcome(awaited[c]).error]
    /\ UNCHANGED <<url, cached, promises, awaited, result, observed>>

Resume(c) == ResumeValue(c) \/ ResumeThrow(c)

Next ==
    \/ \E c \in Calls : CallCached(c)
    \/ \E c \in Calls : CallMissingUrl(c)
    \/ \E c \in Calls : CallAwait(c)
    \/ \E p \in 1..Len(promises), h \in Handles : Fulfil(p, h)
    \/ \E p \in 1..Len(promises), e \in Errors : Reject(p, e)
    \/ \E c \in Calls : ResumeValue(c)
    \/ \E c \in Calls : ResumeThrow(c)

Spec == Init /\ [][Next]_vars

\* The job queue runs the continuation of every invocation whose awaited
\* promise is settled.
FairSpec == Spec /\ \A c \in Calls : WF_vars(Resume(c))

TypeOK ==
    /\ url \in BOOLEAN
    /\ cached.conn \in Handles \cup {NULL}
    /\ cached.promise \in 0..Len(promises)
    /\ Len(promises) <= MaxCalls
    /\ \A c \in Calls : pc[c] \in {"idle", "awaiting", "returned", "threw"}
    /\ \A c \in Calls : awaited[c] \in 0..Len(promises)

----------------------------------------------------------------------------
\* The attempt recorded in the cache, and how it ended.
Started == cached.promise # NoPromise
Attempt == IF Started THEN promises[cached.promise] ELSE PendingPromise
Succeeded == Started /\ Attempt.state = "fulfilled"
Failed == Started /\ Attempt.state = "rejected"
Done(c) == pc[c] \in {"returned", "threw"}

\* C1: mongoose.connect is started at most once in the lifetime of the
\* process, whatever calls are made and however the attempt ends.
C1_ConnectAtMostOnce == connectCalls <= 1

\* Every invocation went through line 161 and there was one connect.
C1_Witness ==
    /\ connectCalls = 1
    /\ \A c \in Calls : awaited[c] # NoPromise
    /\ \E c \in Calls : observed[c] # "pending"

\* C2: with MONGODB_URL set, the invocations issued before the attempt
\* resolves cause exactly one connect, all await that same promise, and
\* those that return after its success return the same handle, the one
\* the attempt resolved to.
C2_ConcurrentCallsShare ==
    \A c, d \in Calls :
        (observed[c] = "pending" /\ observed[d] = "pending") =>
            /\ url
            /\ connectCalls = 1
            /\ awaited[c] = cached.promise
            /\ awaited[c] = awaited[d]
            /\ pc[c] = "returned" =>
                   /\ Succeeded
                   /\ result[c] = Attempt.value
                   /\ result[c] \in Handles
            /\ (pc[c] = "returned" /\ pc[d] = "returned") =>
                   result[c] = result[d]

\* All invocations were issued while the attempt was pending, and all
\* have returned.
C2_Witness ==
    /\ \A c \in Calls : observed[c] = "pending" /\ pc[c] = "returned"
    /\ connectCalls = 1

\* C3: once the connection is stored, an invocation returns that handle
\* in its first step: it neither suspends nor invokes connect, and the
\* cache is left as it was.
C3_CachedReturnsAtOnce ==
    [][\A c \in Calls :
          (cached.conn # NULL /\ pc[c] = "idle" /\ pc'[c] # "idle") =>
              /\ pc'[c] = "returned"
              /\ result'[c] = cached.conn
              /\ awaited'[c] = NoPromise
              /\ promises' = promises
              /\ cached' = cached]_vars

\* An invocation returned the stored handle without ever awaiting.
C3_Witness ==
    \E c \in Calls :
        /\ pc[c] = "returned"
        /\ awaited[c] = NoPromise
        /\ cached.conn # NULL
        /\ result[c] = cached.conn

\* C4: without MONGODB_URL every invocation throws 'Missing MONGODB_URL',
\* connect is never invoked and the cache record keeps both fields null.
C4_MissingUrlFails ==
    ~url =>
        /\ connectCalls = 0
        /\ cached = [conn |-> NULL, promise |-> NoPromise]
        /\ \A c \in Calls :
              /\ pc[c] \in {"idle", "threw"}
              /\ pc[c] = "threw" => error[c] = MissingUrlError
              /\ result[c] = NULL

\* Without MONGODB_URL, every invocation has thrown.
C4_Witness == ~url /\ \A c \in Calls : pc[c] = "threw"

\* C5: when the attempt fails, every invocation awaiting it ends by
\* throwing the attempt's error: none returns, none stays suspended, and
\* conn stays null.
C5_FailureReachesAwaiters ==
    /\ [](Failed =>
            /\ cached.conn = NULL
            /\ \A c \in Calls :
                  awaited[c] # NoPromise =>
                      /\ pc[c] \in {"awaiting", "threw"}
                      /\ pc[c] = "threw" => error[c] = Attempt.error)
    /\ \A c \in Calls :
          (Failed /\ pc[c] = "awaiting") ~>
              (Failed /\ pc[c] = "threw" /\ error[c] = Attempt.error)

\* Two invocations were suspended on the attempt and both threw its error.
C5_Witness ==
    /\ Failed
    /\ \E c, d \in Calls :
          /\ c # d
          /\ observed[c] = "pending" /\ observed[d] = "pending"
          /\ pc[c] = "threw" /\ pc[d] = "threw"
          /\ error[c] = Attempt.error /\ error[d] = Attempt.error

\* C6: a failed attempt stays recorded: from then on the cache and the
\* set of attempts never change, and an invocation can only suspend on
\* that same rejected promise or throw its error.
C6_FailureIsPermanent ==
    [][Failed =>
          /\ cached' = cached
          /\ promises' = promises
          /\ cached.conn = NULL
          /\ \A c \in Calls :
                pc'[c] # pc[c] =>
                    \/ /\ pc'[c] = "awaiting"
                       /\ awaited'[c] = cached.promise
                    \/ /\ pc'[c] = "threw"
                       /\ error'[c] = Attempt.error]_vars

\* An invocation issued after the failure has thrown the same error.
C6_Witness ==
    /\ Failed
    /\ connectCalls = 1
    /\ \E c \in Calls :
          /\ observed[c] = "rejected"
          /\ pc[c] = "threw"
          /\ error[c] = Attempt.error

\* C7: conn is null until the attempt has succeeded, then holds the
\* handle the attempt resolved to, and once non-null never changes.
C7_ConnNeverReassigned ==
    /\ [](cached.conn # NULL => (Succeeded /\ cached.conn = Attempt.value))
    /\ [][cached.conn # NULL => cached'.conn = cached.conn]_vars

\* Two suspended invocations resumed after the same resolution, and a
\* late one returned the stored handle.
C7_Witness ==
    /\ cached.conn # NULL
    /\ \E c, d, l \in Calls :
          /\ c # d
          /\ observed[c] = "pending" /\ observed[d] = "pending"
          /\ pc[c] = "returned" /\ pc[d] = "returned"
          /\ pc[l] = "returned" /\ awaited[l] = NoPromise

\* C8: promise is written only once, from null, by the step that starts
\* the attempt, and is non-null exactly when an attempt was started.
C8_PromiseSetOnce ==
    /\ [](Started <=> connectCalls >= 1)
    /\ [][cached'.promise # cached.promise =>
             /\ cached.promise = NoPromise
             /\ connectCalls = 0
             /\ promises' = <<PendingPromise>>
             /\ cached'.promise = 1]_vars

\* The attempt is settled, every invocation has finished, the record
\* still holds the first promise.
C8_Witness ==
    /\ cached.promise = 1
    /\ Settled(1)
    /\ \A c \in Calls : Done(c)

\* C9: whenever an invocation is suspended, promise is non-null and is
\* the very promise the invocation awaits.
C9_SuspendedAwaitRecorded ==
    \A c \in Calls :
        pc[c] = "awaiting" =>
            /\ cached.promise # NoPromise
            /\ awaited[c] = cached.promise

\* Two invocations are suspended on the pending attempt.
C9_Witness ==
    /\ Started
    /\ Attempt.state = "pending"
    /\ \E c, d \in Calls : c # d /\ pc[c] = "awaiting" /\ pc[d] = "awaiting"

\* C10: with MONGODB_URL set, once the attempt has succeeded every
\* invocation that was started eventually returns the resolved handle,
\* and conn eventually is, and stays, that handle.
C10_SuccessReachesEveryone ==
    /\ \A c \in Calls :
          (url /\ Succeeded /\ pc[c] # "idle") ~>
              (pc[c] = "returned" /\ result[c] = Attempt.value)
    /\ (url /\ Succeeded) ~> [](cached.conn # NULL /\ cached.conn = Attempt.value)

\* Invocations issued before and after the resolution returned the handle.
C10_Witness ==
    /\ Succeeded
    /\ \E c, d \in Calls :
          /\ observed[c] = "pending" /\ observed[d] = "fulfilled"
          /\ pc[c] = "returned" /\ pc[d] = "returned"
          /\ result[c] = Attempt.value /\ result[d] = Attempt.value
          /\ cached.conn = Attempt.value

====
